---- MODULE Spec2Model ----
(***************************************************************************)
(* find-closest-point: the SAH kd-tree builder (src/model) and the median  *)
(* kd-tree with its k-nearest-neighbour search (src/tree).                 *)
(*                                                                         *)
(* Conventions of the model                                                *)
(*  - A point is a tuple <<x, y, z>> of integers; axis a of the code is    *)
(*    position a + 1 of the tuple.                                         *)
(*  - Option<T> is a sequence: <<>> is None, <<v>> is Some(v).             *)
(*  - f32 values are integers.  Every finite value the bounded model       *)
(*    computes is exact in f32.  F32Max stands for f32::MAX, PosInf,       *)
(*    NegInf and NaN for the IEEE specials; FAdd, FSub, FMul, FLt follow   *)
(*    IEEE-754 on them (overflow gives an infinity, 0 * inf is NaN, every  *)
(*    comparison with NaN is false).                                       *)
(*  - A split value is a midpoint (a + b) / 2 and may be a half: the model *)
(*    carries TWICE the split value (names ending in 2) and compares       *)
(*    2 * coordinate against it.                                           *)
(***************************************************************************)
EXTENDS Integers, Sequences, FiniteSets, TLC

\* Number of coordinates of a Point3D.
Dim == 3

\* Bounds of the model.
MaxLen == 4
MaxDepth == 6
MaxLimit == 5
MaxThreshold == 3
MaxArgLen == 3
MaxCoord == 1

\* The points and queries the inputs are drawn from.
PointPool ==
    { <<0, 0, 0>>, <<1, 1, 1>>, <<2, 2, 2>>, <<-1, 2, 0>>, <<2, 0, 1>>, <<3, 1, 2>> }

QueryPool ==
    { <<0, 0, 0>>, <<3, 3, 3>>, <<1, 2, 0>>, <<2, 1, 1>> }

RECURSIVE SeqsUpTo(_, _)
SeqsUpTo(S, n) ==
    IF n = 0 THEN { <<>> }
    ELSE LET shorter == SeqsUpTo(S, n - 1)
         IN shorter \cup { Append(s, x) : s \in { t \in shorter : Len(t) = n - 1 }, x \in S }

None == <<>>
Some(v) == <<v>>
is_some(o) == o # <<>>
unwrap(o) == o[1]

(***************************************************************************)
(* f32                                                                     *)
(***************************************************************************)
F32Max == 1000000
PosInf == F32Max + 1
NegInf == 0 - (F32Max + 1)
NaN == F32Max + 2

IsInf(a) == a = PosInf \/ a = NegInf
Abs(a) == IF a < 0 THEN 0 - a ELSE a
FRound(r) == IF r > F32Max THEN PosInf ELSE IF r < 0 - F32Max THEN NegInf ELSE r
FNeg(a) == IF a = NaN THEN NaN ELSE 0 - a

FAdd(a, b) ==
    IF a = NaN \/ b = NaN THEN NaN
    ELSE IF IsInf(a) THEN (IF IsInf(b) /\ a # b THEN NaN ELSE a)
    ELSE IF IsInf(b) THEN b
    ELSE FRound(a + b)

FSub(a, b) == FAdd(a, FNeg(b))

FMul(a, b) ==
    IF a = NaN \/ b = NaN THEN NaN
    ELSE IF IsInf(a) \/ IsInf(b)
         THEN (IF a = 0 \/ b = 0 THEN NaN
               ELSE IF (a < 0) = (b < 0) THEN PosInf ELSE NegInf)
    ELSE IF Abs(a) > 1000 /\ Abs(b) > 1000
         THEN (IF (a < 0) = (b < 0) THEN PosInf ELSE NegInf)
    ELSE FRound(a * b)

FLt(a, b) == a # NaN /\ b # NaN /\ a < b

\* `x as usize` of an f32 given as twice its value: truncates toward zero and
\* saturates at 0 for negative values.
as_usize2(v2) == IF v2 <= 0 THEN 0 ELSE v2 \div 2

(***************************************************************************)
(* Point3D (src/model/point3d.rs)                                          *)
(***************************************************************************)
get_internal_state(p) == p

\* Ordering of two points on one axis: "Less", "Equal" or "Greater".
\* Every axis other than 0 and 1 compares z.
sort_with_axis(a, b, axis) ==
    LET i == IF axis = 0 THEN 1 ELSE IF axis = 1 THEN 2 ELSE 3
    IN IF a[i] < b[i] THEN "Less" ELSE IF a[i] = b[i] THEN "Equal" ELSE "Greater"

\* Vec::sort_by is a stable sort: x goes behind every element that is not
\* Greater than it.
RECURSIVE InsertByAxis(_, _, _)
InsertByAxis(s, x, axis) ==
    IF s = <<>> THEN <<x>>
    ELSE IF sort_with_axis(s[Len(s)], x, axis) = "Greater"
         THEN Append(InsertByAxis(SubSeq(s, 1, Len(s) - 1), x, axis), s[Len(s)])
         ELSE Append(s, x)

RECURSIVE sort_by_axis(_, _)
sort_by_axis(points, axis) ==
    IF points = <<>> THEN <<>>
    ELSE InsertByAxis(sort_by_axis(SubSeq(points, 1, Len(points) - 1), axis),
                      points[Len(points)], axis)

\* impl PartialEq for Point3D (model/point3d.rs): the same expression.
model_eq(self, other) ==
    self[1] = other[1] /\ self[2] = other[2] /\ self[3] = self[3]

(***************************************************************************)
(* BoundingBox (src/model/bounding_box.rs)                                 *)
(***************************************************************************)
MinOf(S) == CHOOSE m \in S : \A x \in S : m <= x
MaxOf(S) == CHOOSE m \in S : \A x \in S : x <= m

\* Variant: min and max start at 0.0 instead of f32::MAX and f32::MIN.
calculate_bounding_box_zero_init(list, k) ==
    [ k |-> k,
      min_coordinates |->
          [ i \in 1..k |-> MinOf({0} \cup { get_internal_state(list[j])[i] : j \in 1..Len(list) }) ],
      max_coordinates |->
          [ i \in 1..k |-> MaxOf({0} \cup { get_internal_state(list[j])[i] : j \in 1..Len(list) }) ] ]

\* min starts at f32::MAX and max at f32::MIN on every axis; each point
\* tightens them.  An empty list leaves the sentinels in place.
calculate_bounding_box(list, k) ==
    [ k |-> k,
      min_coordinates |->
          [ i \in 1..k |-> MinOf({F32Max} \cup { get_internal_state(list[j])[i] : j \in 1..Len(list) }) ],
      max_coordinates |->
          [ i \in 1..k |-> MaxOf({0 - F32Max} \cup { get_internal_state(list[j])[i] : j \in 1..Len(list) }) ] ]

RECURSIVE SumAdjacent(_, _)
SumAdjacent(axis_list, n) ==
    IF n = 0 THEN 0
    ELSE FAdd(SumAdjacent(axis_list, n - 1),
              FMul(axis_list[n], axis_list[(n % Len(axis_list)) + 1]))

\* Variant: the product of the last and the first extent is left out.
calculate_surface_area_no_wrap(bbox) ==
    LET axis_list == [ i \in 1..bbox.k |-> FSub(bbox.max_coordinates[i], bbox.min_coordinates[i]) ]
    IN IF bbox.k = 0 THEN 0 ELSE FMul(SumAdjacent(axis_list, bbox.k - 1), 2)

calculate_surface_area(bbox) ==
    LET axis_list == [ i \in 1..bbox.k |-> FSub(bbox.max_coordinates[i], bbox.min_coordinates[i]) ]
    IN FMul(SumAdjacent(axis_list, bbox.k), 2)

(***************************************************************************)
(* SAH (src/model/sah.rs)                                                  *)
(***************************************************************************)
\* Variant: a coordinate equal to the split value goes left.
partition_dataset_inclusive(values, median_value2, axis) ==
    << SelectSeq(values, LAMBDA p : 2 * get_internal_state(p)[axis + 1] <= median_value2),
       SelectSeq(values, LAMBDA p : ~(2 * get_internal_state(p)[axis + 1] <= median_value2)) >>

\* left: coordinate < median_value; right: everything else.  Input order kept.
partition_dataset(values, median_value2, axis) ==
    << SelectSeq(values, LAMBDA p : 2 * get_internal_state(p)[axis + 1] < median_value2),
       SelectSeq(values, LAMBDA p : ~(2 * get_internal_state(p)[axis + 1] < median_value2)) >>

calculate_sah_cost(sorted_list, axis, k, median_value2) ==
    LET parts == partition_dataset(sorted_list, median_value2, axis)
        surface_area_left == calculate_surface_area(calculate_bounding_box(parts[1], k))
        surface_area_right == calculate_surface_area(calculate_bounding_box(parts[2], k))
    IN FMul(2, FAdd(FMul(Len(parts[1]), surface_area_left),
                    FMul(Len(parts[2]), surface_area_right)))

\* Variant: of several axes with the largest range the highest one wins.
find_dimension_axis_highest_wins(points, k) ==
    LET Range(a) == MaxOf({ get_internal_state(points[j])[a + 1] : j \in 1..Len(points) })
                    - MinOf({ get_internal_state(points[j])[a + 1] : j \in 1..Len(points) })
        best == { a \in 0..(k - 1) : \A b \in 0..(k - 1) : Range(b) <= Range(a) }
    IN IF points = <<>> \/ best = {} THEN 0 ELSE MaxOf(best)

\* Axes 0..k-1 in order; an axis wins only with a strictly larger range.
RECURSIVE LargestRangeFrom(_, _, _, _, _)
LargestRangeFrom(points, k, axis, largest_range_axis, largest_range_value) ==
    IF axis >= k THEN largest_range_axis
    ELSE LET coords == { get_internal_state(points[j])[axis + 1] : j \in 1..Len(points) }
             min_coord == MinOf({F32Max} \cup coords)
             max_coord == MaxOf({0 - F32Max} \cup coords)
             range_value == FSub(max_coord, min_coord)
         IN IF FLt(largest_range_value, range_value)
            THEN LargestRangeFrom(points, k, axis + 1, axis, range_value)
            ELSE LargestRangeFrom(points, k, axis + 1, largest_range_axis, largest_range_value)

find_dimension_axis_with_largest_range(points, k) ==
    LargestRangeFrom(points, k, 0, 0, 0 - F32Max)

\* Variant: a candidate also replaces the best one when its cost is equal.
RECURSIVE SplitLoop_last_wins(_, _, _, _, _, _)
SplitLoop_last_wins(points, axis, k, i, min_cost, optimal_split_value2) ==
    IF i >= Len(points) THEN << optimal_split_value2, min_cost >>
    ELSE LET split_value2 == get_internal_state(points[i])[axis + 1]
                             + get_internal_state(points[i + 1])[axis + 1]
             sah_cost == calculate_sah_cost(points, axis, k, split_value2)
         IN IF FLt(sah_cost, min_cost) \/ sah_cost = min_cost
            THEN SplitLoop_last_wins(points, axis, k, i + 1, sah_cost, split_value2)
            ELSE SplitLoop_last_wins(points, axis, k, i + 1, min_cost, optimal_split_value2)

\* The loop `for i in 1..points.len()`: i is the 0-based index of the code.
RECURSIVE SplitLoop(_, _, _, _, _, _)
SplitLoop(points, axis, k, i, min_cost, optimal_split_value2) ==
    IF i >= Len(points) THEN << optimal_split_value2, min_cost >>
    ELSE LET split_value2 == get_internal_state(points[i])[axis + 1]
                             + get_internal_state(points[i + 1])[axis + 1]
             sah_cost == calculate_sah_cost(points, axis, k, split_value2)
         IN IF FLt(sah_cost, min_cost)
            THEN SplitLoop(points, axis, k, i + 1, sah_cost, split_value2)
            ELSE SplitLoop(points, axis, k, i + 1, min_cost, optimal_split_value2)

select_optimal_splitting_plane(points, k) ==
    LET largest_range_axis == find_dimension_axis_with_largest_range(points, k)
        sorted == sort_by_axis(points, largest_range_axis)
        best == SplitLoop(sorted, largest_range_axis, k, 1, F32Max, 0)
    IN [ optimal_dimension |-> largest_range_axis,
         optimal_split_value2 |-> best[1],
         sah_cost |-> best[2],
         og_list |-> sorted ]

\* The index handed back is the split value cast with `as usize`.
spatial_partition_dataset(sah) ==
    LET parts == partition_dataset(sah.og_list, sah.optimal_split_value2, sah.optimal_dimension)
    IN << parts[1], parts[2], as_usize2(sah.optimal_split_value2) >>

\* Variant: an empty side is handed back as Some(empty) instead of None.
get_constructor_always_some(points, k) ==
    LET sah == select_optimal_splitting_plane(points, k)
        partitioned_data == spatial_partition_dataset(sah)
    IN [ left |-> Some(partitioned_data[1]),
         right |-> Some(partitioned_data[2]),
         index |-> partitioned_data[3],
         sah_cost |-> sah.sah_cost ]

\* (left, right, index, sah_cost); a side is None when it is empty.  The
\* fourth component is the one create_branch destructures (kd_tree.rs:117) and
\* the trait declares (tree_constructor.rs:3): the cost of the chosen plane.
get_constructor(points, k) ==
    LET sah == select_optimal_splitting_plane(points, k)
        partitioned_data == spatial_partition_dataset(sah)
    IN [ left |-> IF Len(partitioned_data[1]) > 0 THEN Some(partitioned_data[1]) ELSE None,
         right |-> IF Len(partitioned_data[2]) > 0 THEN Some(partitioned_data[2]) ELSE None,
         index |-> partitioned_data[3],
         sah_cost |-> sah.sah_cost ]

(***************************************************************************)
(* Node (src/model/node.rs)                                                *)
(***************************************************************************)
get_empty_node ==
    [ index |-> 0, values |-> None, is_leaf |-> FALSE, left |-> None, right |-> None ]

create_leaf_node(values) ==
    [ index |-> 0, values |-> Some(values), is_leaf |-> TRUE, left |-> None, right |-> None ]

set_child_node(self, node, index, direction) ==
    IF direction = "LEFT" /\ is_some(node)
    THEN [ self EXCEPT !.left = Some(unwrap(node)), !.index = index ]
    ELSE IF direction = "RIGHT" /\ is_some(node)
    THEN [ self EXCEPT !.right = Some(unwrap(node)), !.index = index ]
    ELSE [ self EXCEPT !.index = index ]

(***************************************************************************)
(* Point3D and KDTree of the median builder (src/points, src/tree)         *)
(***************************************************************************)
get_coordinate(p) == p

\* impl PartialEq for Point3D (points/point.rs): the third conjunct compares
\* self.z with itself.
eq(self, other) ==
    self[1] = other[1] /\ self[2] = other[2] /\ self[3] = self[3]

\* The code returns sqrt(dx*dx + dy*dy + dz*dz).  The model keeps the sum of
\* squares: on the integers of the model sqrt is strictly increasing and exact
\* enough to keep distinct sums distinct, and the code only compares and sorts
\* the distances.
distance_to(self, other) ==
    LET dx == self[1] - other[1]
        dy == self[2] - other[2]
        dz == self[3] - other[3]
    IN dx * dx + dy * dy + dz * dz

Ok(v) == [ ok |-> TRUE, val |-> <<v>>, err |-> "" ]
Err(e) == [ ok |-> FALSE, val |-> <<>>, err |-> e ]

init == [ point |-> None, depth |-> 0, left |-> None, right |-> None ]

\* Axes 0, 1 and 2 compare that coordinate; the callers only pass depth % 3.
sorting_point(point_a, point_b, axis) ==
    LET a == get_coordinate(point_a)[axis + 1]
        b == get_coordinate(point_b)[axis + 1]
    IN IF a < b THEN "Less" ELSE IF a = b THEN "Equal" ELSE "Greater"

RECURSIVE InsertPoint(_, _, _)
InsertPoint(s, x, axis) ==
    IF s = <<>> THEN <<x>>
    ELSE IF sorting_point(s[Len(s)], x, axis) = "Greater"
         THEN Append(InsertPoint(SubSeq(s, 1, Len(s) - 1), x, axis), s[Len(s)])
         ELSE Append(s, x)

RECURSIVE sort_points(_, _)
sort_points(points, axis) ==
    IF points = <<>> THEN <<>>
    ELSE InsertPoint(sort_points(SubSeq(points, 1, Len(points) - 1), axis),
                     points[Len(points)], axis)

\* Variant: the RIGHT slice starts at the median element.
operation_point_list_from_median(points, median, node_direction) ==
    IF node_direction = "LEFT"
    THEN SubSeq(points, 1, median)
    ELSE SubSeq(points, median + 1, Len(points))

operation_point_list(points, median, node_direction) ==
    IF node_direction = "LEFT"
    THEN SubSeq(points, 1, median)
    ELSE SubSeq(points, median + 2, Len(points))

\* median is the 0-based index len / 2; the recursive calls pass the literal 3.
RECURSIVE build_kd_tree(_, _, _, _)
build_kd_tree(init_kd_tree, points, k, depth) ==
    LET axis == depth % k
        sorted_points == sort_points(points, axis)
        median == Len(sorted_points) \div 2
        node == [ init_kd_tree EXCEPT !.point = Some(sorted_points[median + 1]),
                                      !.depth = depth ]
    IN IF median # 0
       THEN IF median = 1 /\ Len(sorted_points) = 2
            THEN LET left_point == operation_point_list(sorted_points, median, "LEFT")
                     l == build_kd_tree(init, left_point, 3, depth + 1)
                 IN Some([ node EXCEPT !.left = IF is_some(l) THEN l ELSE @ ])
            ELSE LET left_point == operation_point_list(sorted_points, median, "LEFT")
                     l == build_kd_tree(init, left_point, 3, depth + 1)
                     right_point == operation_point_list(sorted_points, median, "RIGHT")
                     r == build_kd_tree(init, right_point, 3, depth + 1)
                 IN Some([ node EXCEPT !.left = IF is_some(l) THEN l ELSE @,
                                       !.right = IF is_some(r) THEN r ELSE @ ])
       ELSE Some(node)

\* Variant: the tree is built without the first element of the sorted vector.
create_kd_tree_skip_first(points, depth, k) ==
    IF Len(points) = 0
    THEN [ result |-> Err("KDTreeBuildError: point len is zero."), points |-> points ]
    ELSE LET sorted == sort_points(points, 0)
             built == build_kd_tree(init, IF Len(sorted) > 1 THEN Tail(sorted) ELSE sorted, 3, 0)
         IN [ result |-> IF is_some(built)
                         THEN Ok(unwrap(built))
                         ELSE Err("KDTreeBuildError: Error occurs while building KDTree"),
              points |-> sort_points(sorted, 0) ]

\* depth and k of the caller are not used: the tree is built with k = 3 from
\* depth 0.  The caller's vector is left sorted on axis 0.
create_kd_tree(points, depth, k) ==
    IF Len(points) = 0
    THEN [ result |-> Err("KDTreeBuildError: point len is zero."), points |-> points ]
    ELSE LET sorted == sort_points(points, 0)
             built == build_kd_tree(init, sorted, 3, 0)
         IN [ result |-> IF is_some(built)
                         THEN Ok(unwrap(built))
                         ELSE Err("KDTreeBuildError: Error occurs while building KDTree"),
              points |-> sort_points(sorted, 0) ]

\* Variant: a query coordinate equal to the pivot's goes RIGHT.
direction_zero_goes_right(query_point, node_point, axis) ==
    IF get_coordinate(query_point)[axis + 1] - get_coordinate(node_point)[axis + 1] >= 0
    THEN "RIGHT"
    ELSE "LEFT"

direction(query_point, node_point, axis) ==
    IF get_coordinate(query_point)[axis + 1] - get_coordinate(node_point)[axis + 1] > 0
    THEN "RIGHT"
    ELSE "LEFT"

\* max_distance_sq is passed by value: what a recursive call lowers it to is
\* not seen by its caller.
RECURSIVE nearest_neighbour(_, _, _, _, _)
nearest_neighbour(node, max_distance_sq, query_point, best_points, k) ==
    LET axis == node.depth % k
        point == unwrap(node.point)
        left_node == node.left
        right_node == node.right
        current_node_distance == distance_to(query_point, point)
    IN IF current_node_distance < max_distance_sq
       THEN LET max1 == current_node_distance
                pushed == Append(best_points, << max1, point >>)
                dir == direction(query_point, point, axis)
            IN IF (dir = "LEFT" /\ is_some(left_node)) \/ (dir = "RIGHT" /\ is_some(right_node))
               THEN IF dir = "RIGHT"
                    THEN LET near == nearest_neighbour(unwrap(right_node), max1, query_point, pushed, k)
                             distance_to_op_side ==
                                 IF is_some(left_node)
                                 THEN distance_to(query_point, unwrap(unwrap(left_node).point))
                                 ELSE F32Max
                         IN IF distance_to_op_side < max1
                            THEN nearest_neighbour(unwrap(left_node), max1, query_point, near, k)
                            ELSE near
                    ELSE LET near == nearest_neighbour(unwrap(left_node), max1, query_point, pushed, k)
                             distance_to_op_side ==
                                 IF is_some(right_node)
                                 THEN distance_to(query_point, unwrap(unwrap(right_node).point))
                                 ELSE F32Max
                         IN IF distance_to_op_side < max1
                            THEN nearest_neighbour(unwrap(right_node), max1, query_point, near, k)
                            ELSE near
               ELSE pushed
       ELSE best_points

\* The invocations of nearest_neighbour that one call makes, itself first, in
\* the order they are entered.  path: the LEFT / RIGHT steps from the node the
\* search started at; max_distance_sq: the bound the invocation was given.
\* Which child is entered depends on the distances and on the bound only.
RECURSIVE nearest_neighbour_calls(_, _, _, _, _)
nearest_neighbour_calls(node, max_distance_sq, query_point, k, path) ==
    LET axis == node.depth % k
        point == unwrap(node.point)
        left_node == node.left
        right_node == node.right
        current_node_distance == distance_to(query_point, point)
        self == << [ path |-> path, max_distance_sq |-> max_distance_sq ] >>
    IN IF current_node_distance < max_distance_sq
       THEN LET max1 == current_node_distance
                dir == direction(query_point, point, axis)
            IN IF (dir = "LEFT" /\ is_some(left_node)) \/ (dir = "RIGHT" /\ is_some(right_node))
               THEN LET near_node == IF dir = "RIGHT" THEN right_node ELSE left_node
                        op_node == IF dir = "RIGHT" THEN left_node ELSE right_node
                        op_dir == IF dir = "RIGHT" THEN "LEFT" ELSE "RIGHT"
                        near == nearest_neighbour_calls(unwrap(near_node), max1, query_point,
                                                        k, Append(path, dir))
                        distance_to_op_side ==
                            IF is_some(op_node)
                            THEN distance_to(query_point, unwrap(unwrap(op_node).point))
                            ELSE F32Max
                    IN IF distance_to_op_side < max1
                       THEN self \o near
                            \o nearest_neighbour_calls(unwrap(op_node), max1, query_point,
                                                       k, Append(path, op_dir))
                       ELSE self \o near
               ELSE self
       ELSE self

sorting_nearest(n_point_a, n_point_b) ==
    IF n_point_a[1] < n_point_b[1] THEN "Less"
    ELSE IF n_point_a[1] = n_point_b[1] THEN "Equal" ELSE "Greater"

RECURSIVE InsertNearest(_, _)
InsertNearest(s, x) ==
    IF s = <<>> THEN <<x>>
    ELSE IF sorting_nearest(s[Len(s)], x) = "Greater"
         THEN Append(InsertNearest(SubSeq(s, 1, Len(s) - 1), x), s[Len(s)])
         ELSE Append(s, x)

RECURSIVE sort_nearest(_)
sort_nearest(list) ==
    IF list = <<>> THEN <<>>
    ELSE InsertNearest(sort_nearest(SubSeq(list, 1, Len(list) - 1)), list[Len(list)])

\* Variant: the gathered pairs are truncated without being sorted first.
find_closest_unsorted(self, query_point, k, point_limit) ==
    LET collected == nearest_neighbour(self, F32Max, query_point, <<>>, k)
        best_points_list == collected
    IN [ collected |-> collected,
         result |-> IF Len(best_points_list) >= point_limit
                    THEN Some(SubSeq(best_points_list, 1, point_limit))
                    ELSE IF Len(best_points_list) > 0
                    THEN Some(best_points_list)
                    ELSE None ]

\* Variant: the non-empty test comes first, so the list is never truncated.
find_closest_untruncated(self, query_point, k, point_limit) ==
    LET collected == nearest_neighbour(self, F32Max, query_point, <<>>, k)
        best_points_list == sort_nearest(collected)
    IN [ collected |-> collected,
         result |-> IF Len(best_points_list) > 0
                    THEN Some(best_points_list)
                    ELSE IF Len(best_points_list) >= point_limit
                    THEN Some(SubSeq(best_points_list, 1, point_limit))
                    ELSE None ]

\* Variant: the running bound starts at 0.0 where the code starts at f32::MAX.
find_closest_zero_bound(self, query_point, k, point_limit) ==
    LET collected == nearest_neighbour(self, 0, query_point, <<>>, k)
        best_points_list == sort_nearest(collected)
    IN [ collected |-> collected,
         result |-> IF Len(best_points_list) >= point_limit
                    THEN Some(SubSeq(best_points_list, 1, point_limit))
                    ELSE IF Len(best_points_list) > 0
                    THEN Some(best_points_list)
                    ELSE None ]

\* collected: what nearest_neighbour gathered, in traversal order;
\* result: the Option the call returns.
find_closest(self, query_point, k, point_limit) ==
    LET collected == nearest_neighbour(self, F32Max, query_point, <<>>, k)
        best_points_list == sort_nearest(collected)
    IN [ collected |-> collected,
         result |-> IF Len(best_points_list) >= point_limit
                    THEN Some(SubSeq(best_points_list, 1, point_limit))
                    ELSE IF Len(best_points_list) > 0
                    THEN Some(best_points_list)
                    ELSE None ]

(***************************************************************************)
(* State                                                                   *)
(***************************************************************************)
VARIABLES
    pc,                     \* which call is in progress or has finished
    values,                 \* SAH builder: the input vector
    k,                      \* SAH builder: dimensionality argument
    min_points_per_subset,  \* SAH builder: leaf threshold argument
    stack,                  \* SAH builder: activation records of create_branch
    kd_tree,                \* SAH builder: Option<Result<KDTree>> returned
    sah_calls,              \* SAH builder: calls of SAH::get_constructor so far
    points,                 \* median builder: the caller's vector after the call
    root,                   \* median builder: Option<Result<KDTree>> returned
    query_point,            \* find_closest: arguments of the last call
    query_k,
    point_limit,
    collected,              \* find_closest: pairs gathered by nearest_neighbour
    nn_calls,               \* find_closest: the nearest_neighbour invocations made
    closest,                \* find_closest: Option<Vec<(f32, &P)>> returned
    call                    \* a direct call of one SAH / BoundingBox function:
                            \* its name, arguments and result

vars == << pc, values, k, min_points_per_subset, stack, kd_tree, sah_calls,
           points, root, query_point, query_k, point_limit, collected, nn_calls,
           closest, call >>

sah_vars == << values, k, min_points_per_subset, stack, kd_tree, sah_calls >>
median_vars == << points, root >>
query_vars == << query_point, query_k, point_limit, collected, nn_calls, closest >>

Inputs == SeqsUpTo(PointPool, MaxLen)

Init ==
    /\ pc = "idle"
    /\ values = <<>>
    /\ k = 1
    /\ min_points_per_subset = 0
    /\ stack = <<>>
    /\ kd_tree = None
    /\ sah_calls = 0
    /\ points = <<>>
    /\ root = None
    /\ query_point = <<0, 0, 0>>
    /\ query_k = 1
    /\ point_limit = 0
    /\ collected = <<>>
    /\ nn_calls = <<>>
    /\ closest = None
    /\ call = [ fn |-> "none" ]

(***************************************************************************)
(* KDTree of the SAH builder (src/model/kd_tree.rs)                        *)
(***************************************************************************)
\* One activation of create_branch.  at: "entry" before the body runs,
\* "left" / "right" while the call for that subset is running, "done" once
\* the return value ret is known.  constructor: what SAH::get_constructor
\* handed back to this activation, None before the call.
Frame(vals, depth) ==
    [ values |-> vals, depth |-> depth, at |-> "entry",
      right_subset |-> None, index |-> 0, node |-> get_empty_node, ret |-> None,
      constructor |-> None ]

Top == stack[Len(stack)]
ReplaceTop(f) == [ stack EXCEPT ![Len(stack)] = f ]

\* Variant: the base case tests `<` where the code tests `<=`.
is_leaf_sized_strict(vals, min_points) == Len(vals) < min_points

is_leaf_sized(vals, min_points) == Len(vals) <= min_points

\* Variant: the right subset is tested before the left one.
leave_node_right_first(left_subset, right_subset) ==
    IF is_some(right_subset) THEN Some(create_leaf_node(unwrap(right_subset)))
    ELSE IF is_some(left_subset) THEN Some(create_leaf_node(unwrap(left_subset)))
    ELSE None

\* What create_branch returns when sah_cost is 0.
leave_node(left_subset, right_subset) ==
    IF is_some(left_subset) THEN Some(create_leaf_node(unwrap(left_subset)))
    ELSE IF is_some(right_subset) THEN Some(create_leaf_node(unwrap(right_subset)))
    ELSE None

\* KDTree::create_kd_tree: calls create_branch(values, 0, k, min) and wraps
\* what it returns in Ok; there is no other return.
CreateKdTree ==
    /\ pc = "idle"
    /\ \E vals \in Inputs, kk \in 1..Dim, mp \in 0..MaxThreshold :
          /\ values' = vals
          /\ k' = kk
          /\ min_points_per_subset' = mp
          /\ stack' = << Frame(vals, 0) >>
    /\ pc' = "create_branch"
    /\ UNCHANGED << kd_tree, sah_calls, median_vars, query_vars, call >>

\* The body of create_branch up to its return or its first recursive call.
\* A call deeper than MaxDepth exhausts the native stack.
CreateBranchBody ==
    /\ pc = "create_branch"
    /\ Top.at = "entry"
    /\ IF is_leaf_sized(Top.values, min_points_per_subset)
       THEN /\ stack' = ReplaceTop([ Top EXCEPT !.at = "done",
                                                !.ret = Some(create_leaf_node(Top.values)) ])
            /\ UNCHANGED << pc, sah_calls >>
       ELSE LET axis == Top.depth % k
            IN \E c \in { get_constructor(Top.values, axis) } :
               /\ sah_calls' = sah_calls + 1
               /\ IF c.sah_cost # 0
                  THEN IF is_some(c.left) \/ is_some(c.right)
                       THEN IF Len(stack) >= MaxDepth
                            THEN /\ pc' = "stack_overflow"
                                 /\ UNCHANGED stack
                            ELSE /\ stack' =
                                      Append(ReplaceTop([ Top EXCEPT
                                                 !.at = IF is_some(c.left) THEN "left" ELSE "right",
                                                 !.right_subset = c.right,
                                                 !.index = c.index,
                                                 !.constructor = Some(c) ]),
                                             Frame(IF is_some(c.left) THEN unwrap(c.left)
                                                   ELSE unwrap(c.right), Top.depth + 1))
                                 /\ UNCHANGED pc
                       ELSE /\ stack' = ReplaceTop([ Top EXCEPT !.at = "done",
                                                                !.ret = Some(get_empty_node),
                                                                !.constructor = Some(c) ])
                            /\ UNCHANGED pc
                  ELSE /\ stack' = ReplaceTop([ Top EXCEPT !.at = "done",
                                                           !.ret = leave_node(c.left, c.right),
                                                           !.constructor = Some(c) ])
                       /\ UNCHANGED pc
    /\ UNCHANGED << values, k, min_points_per_subset, kd_tree, median_vars, query_vars, call >>

\* A create_branch call returns: to create_kd_tree (the tree is complete), or
\* to the activation that called it, which attaches the child and goes on to
\* the right subset or returns its node.
CreateBranchReturn ==
    /\ pc = "create_branch"
    /\ Top.at = "done"
    /\ IF Len(stack) = 1
       THEN /\ kd_tree' = Some(Ok([ root |-> Top.ret, dimension |-> k ]))
            /\ stack' = <<>>
            /\ pc' = "sah_built"
       ELSE LET caller == stack[Len(stack) - 1]
                rest == SubSeq(stack, 1, Len(stack) - 2)
                attached == set_child_node(caller.node, Top.ret, caller.index,
                                           IF caller.at = "left" THEN "LEFT" ELSE "RIGHT")
            IN /\ IF caller.at = "left" /\ is_some(caller.right_subset)
                  THEN stack' = rest \o << [ caller EXCEPT !.node = attached, !.at = "right" ],
                                           Frame(unwrap(caller.right_subset), caller.depth + 1) >>
                  ELSE stack' = Append(rest, [ caller EXCEPT !.node = attached,
                                                             !.at = "done",
                                                             !.ret = Some(attached) ])
               /\ UNCHANGED << pc, kd_tree >>
    /\ UNCHANGED << values, k, min_points_per_subset, sah_calls, median_vars, query_vars, call >>

(***************************************************************************)
(* KDTree of the median builder and its search (src/tree/kdtree.rs)        *)
(***************************************************************************)
CreateKdTreeMedian ==
    /\ pc = "idle"
    /\ \E pts \in Inputs, depth \in 0..1, kk \in 1..Dim :
          LET r == create_kd_tree(pts, depth, kk)
          IN /\ root' = Some(r.result)
             /\ points' = r.points
             /\ pc' = IF r.result.ok THEN "median_built" ELSE "median_error"
    /\ UNCHANGED << sah_vars, query_vars, call >>

FindClosest ==
    /\ pc = "median_built"
    /\ \E q \in QueryPool, kk \in 1..Dim, limit \in 0..MaxLimit :
          LET r == find_closest(unwrap(unwrap(root).val), q, kk, limit)
          IN /\ query_point' = q
             /\ query_k' = kk
             /\ point_limit' = limit
             /\ collected' = r.collected
             /\ nn_calls' = nearest_neighbour_calls(unwrap(unwrap(root).val), F32Max, q, kk, <<>>)
             /\ closest' = r.result
    /\ pc' = "searched"
    /\ UNCHANGED << sah_vars, median_vars, call >>

(***************************************************************************)
(* Direct calls of the SAH and BoundingBox functions (their unit tests     *)
(* call them this way: src/model/sah.rs 363-482, bounding_box.rs 148-188)  *)
(***************************************************************************)
Args == SeqsUpTo(PointPool, MaxArgLen)

PoolCoords == { p[i] : p \in PointPool, i \in 1..Dim }

\* Twice the split values tried: every midpoint of two pool coordinates and
\* one half step outside them.
SplitValues2 == (2 * MinOf(PoolCoords) - 1)..(2 * MaxOf(PoolCoords) + 1)

all_vars_but_call ==
    << values, k, min_points_per_subset, stack, kd_tree, sah_calls,
       points, root, query_point, query_k, point_limit, collected, nn_calls, closest >>

PartitionDataset ==
    /\ pc = "idle"
    /\ \E vals \in Args, v2 \in SplitValues2, axis \in 0..(Dim - 1) :
          call' = [ fn |-> "partition_dataset",
                    values |-> vals, median_value2 |-> v2, axis |-> axis,
                    result |-> partition_dataset(vals, v2, axis) ]
    /\ pc' = "returned"
    /\ UNCHANGED all_vars_but_call

FindDimensionAxisWithLargestRange ==
    /\ pc = "idle"
    /\ \E vals \in Args, kk \in 0..Dim :
          call' = [ fn |-> "find_dimension_axis_with_largest_range",
                    points |-> vals, k |-> kk,
                    result |-> find_dimension_axis_with_largest_range(vals, kk) ]
    /\ pc' = "returned"
    /\ UNCHANGED all_vars_but_call

\* sorted_list is sorted on the axis and the value is the midpoint of two
\* neighbours, as in the one caller and in the unit test.
CalculateSahCost ==
    /\ pc = "idle"
    /\ \E vals \in Args, axis \in 0..(Dim - 1), kk \in 0..Dim :
          LET sorted_list == sort_by_axis(vals, axis)
          IN \E i \in 1..(Len(sorted_list) - 1) :
                LET v2 == get_internal_state(sorted_list[i])[axis + 1]
                          + get_internal_state(sorted_list[i + 1])[axis + 1]
                IN call' = [ fn |-> "calculate_sah_cost",
                             sorted_list |-> sorted_list, axis |-> axis, k |-> kk,
                             median_value2 |-> v2,
                             result |-> calculate_sah_cost(sorted_list, axis, kk, v2) ]
    /\ pc' = "returned"
    /\ UNCHANGED all_vars_but_call

SelectOptimalSplittingPlane ==
    /\ pc = "idle"
    /\ \E vals \in Args, kk \in 0..Dim :
          call' = [ fn |-> "select_optimal_splitting_plane",
                    points |-> vals, k |-> kk,
                    result |-> select_optimal_splitting_plane(vals, kk) ]
    /\ pc' = "returned"
    /\ UNCHANGED all_vars_but_call

\* sah is the SAH value get_constructor builds and hands to
\* spatial_partition_dataset; partitioned is what that returns.
GetConstructor ==
    /\ pc = "idle"
    /\ \E vals \in Args, kk \in 0..Dim :
          LET sah == select_optimal_splitting_plane(vals, kk)
          IN call' = [ fn |-> "get_constructor",
                       points |-> vals, k |-> kk,
                       sah |-> sah,
                       partitioned |-> spatial_partition_dataset(sah),
                       result |-> get_constructor(vals, kk) ]
    /\ pc' = "returned"
    /\ UNCHANGED all_vars_but_call

CalculateBoundingBox ==
    /\ pc = "idle"
    /\ \E list \in Args, kk \in 0..Dim :
          call' = [ fn |-> "calculate_bounding_box",
                    list |-> list, k |-> kk,
                    result |-> calculate_bounding_box(list, kk) ]
    /\ pc' = "returned"
    /\ UNCHANGED all_vars_but_call

\* The boxes are the ones calculate_bounding_box builds; list is the point
\* list the box was computed from.
CalculateSurfaceArea ==
    /\ pc = "idle"
    /\ \E list \in Args, kk \in 0..Dim :
          LET bbox == calculate_bounding_box(list, kk)
          IN call' = [ fn |-> "calculate_surface_area",
                       list |-> list, bbox |-> bbox,
                       result |-> calculate_surface_area(bbox) ]
    /\ pc' = "returned"
    /\ UNCHANGED all_vars_but_call

\* p == q on two points, with both PartialEq implementations.
EqPool == { << x, y, z >> : x \in 0..MaxCoord, y \in 0..MaxCoord, z \in 0..MaxCoord }

Eq ==
    /\ pc = "idle"
    /\ \E p \in EqPool, q \in EqPool :
          call' = [ fn |-> "eq", self |-> p, other |-> q,
                    result |-> eq(p, q), model_result |-> model_eq(p, q) ]
    /\ pc' = "returned"
    /\ UNCHANGED all_vars_but_call

Next ==
    \/ CreateKdTree
    \/ CreateBranchBody
    \/ CreateBranchReturn
    \/ CreateKdTreeMedian
    \/ FindClosest
    \/ PartitionDataset
    \/ FindDimensionAxisWithLargestRange
    \/ CalculateSahCost
    \/ SelectOptimalSplittingPlane
    \/ GetConstructor
    \/ CalculateBoundingBox
    \/ CalculateSurfaceArea
    \/ Eq

Spec == Init /\ [][Next]_vars

(***************************************************************************)
(* Properties                                                              *)
(***************************************************************************)
Count(s, x) == Cardinality({ i \in 1..Len(s) : s[i] = x })

SameMultiset(a, b) ==
    /\ Len(a) = Len(b)
    /\ \A i \in 1..Len(a) : Count(a, a[i]) = Count(b, a[i])

\* r holds n elements of c, and every element of c whose key (first
\* component) is below some key of r is in r as often as in c.
IsSmallest(r, c, n) ==
    /\ Len(r) = n
    /\ \A i \in 1..Len(r) : Count(r, r[i]) <= Count(c, r[i])
    /\ \A i \in 1..Len(c) :
          (\E j \in 1..Len(r) : c[i][1] < r[j][1]) => Count(r, c[i]) = Count(c, c[i])

MinInt(a, b) == IF a < b THEN a ELSE b

\* The points of the leaf buckets reachable from an Option<Node>.
RECURSIVE ReachablePoints(_)
ReachablePoints(n) ==
    IF ~is_some(n) THEN <<>>
    ELSE (IF is_some(unwrap(n).values) THEN unwrap(unwrap(n).values) ELSE <<>>)
         \o ReachablePoints(unwrap(n).left) \o ReachablePoints(unwrap(n).right)

\* The leaf nodes reachable from an Option<Node>.
RECURSIVE LeafNodes(_)
LeafNodes(n) ==
    IF ~is_some(n) THEN {}
    ELSE (IF unwrap(n).is_leaf THEN { unwrap(n) } ELSE {})
         \cup LeafNodes(unwrap(n).left) \cup LeafNodes(unwrap(n).right)

SahRoot == unwrap(unwrap(kd_tree).val).root

Distances(s) == [ i \in 1..Len(s) |-> << s[i][1] >> ]
BruteForce == [ i \in 1..Len(points) |-> << distance_to(query_point, points[i]) >> ]

\* C1: the tree the SAH builder returns for a non-empty input holds exactly
\* the input points: the multiset of the points in the reachable leaf buckets
\* equals the multiset of the input.
C1_AllPointsKept ==
    (pc = "sah_built" /\ values # <<>>) => SameMultiset(ReachablePoints(SahRoot), values)

\* C2: for 1 <= limit <= |P|, find_closest on the median tree returns exactly
\* limit pairs whose distances are the limit smallest distances from the query
\* to the points of P.
C2_AgreesWithBruteForce ==
    (pc = "searched" /\ 1 <= point_limit /\ point_limit <= Len(points))
        => /\ is_some(closest)
           /\ IsSmallest(Distances(unwrap(closest)), BruteForce, point_limit)

\* C3: the sequence find_closest returns is in non-decreasing order of
\* distance, its length is min(limit, n) for the n pairs the traversal
\* gathered, and when n >= limit it holds the limit smallest gathered pairs.
C3_SortedAndTruncated ==
    (pc = "searched" /\ is_some(closest))
        => LET r == unwrap(closest)
           IN /\ \A i \in 1..Len(r) - 1 : r[i][1] <= r[i + 1][1]
              /\ Len(r) = MinInt(point_limit, Len(collected))
              /\ IsSmallest(r, collected, Len(r))

C3_Witness ==
    /\ pc = "searched"
    /\ is_some(closest)
    /\ point_limit >= 2
    /\ Len(collected) > point_limit
    /\ Len(unwrap(closest)) = point_limit
    /\ collected[1][1] > collected[2][1]

\* C4: a build from an empty point sequence returns an error and no tree, in
\* the SAH builder and in the median builder.
C4_EmptyInputRejected ==
    /\ (pc = "sah_built" /\ values = <<>>) => ~unwrap(kd_tree).ok
    /\ (pc \in { "median_built", "median_error", "searched" } /\ points = <<>>)
           => ~unwrap(root).ok

\* C5: create_branch terminates: every recursive call is on a point set
\* strictly smaller than its caller's, and the recursion never exhausts the
\* stack.
C5_RecursionShrinks ==
    /\ pc # "stack_overflow"
    /\ \A i \in 2..Len(stack) : Len(stack[i].values) < Len(stack[i - 1].values)

\* C7: in a tree the SAH builder returns every leaf bucket is non-empty, and
\* holds at most min_points_per_subset points unless the leaf comes from the
\* degenerate-split branch, where it holds at most the points of that call.
C7_LeafBuckets ==
    pc = "sah_built"
        => \A leaf \in LeafNodes(SahRoot) :
              LET bucket == unwrap(leaf.values)
              IN /\ Len(bucket) >= 1
                 /\ \/ Len(bucket) <= min_points_per_subset
                    \/ (sah_calls > 0 /\ Len(bucket) <= Len(values))

\* C8: for 1 <= |P| <= min_points_per_subset the SAH builder returns a root
\* that is a leaf without children whose bucket is P in input order, and
\* SAH::get_constructor is never called.
C8_SmallInputIsOneLeaf ==
    (pc = "sah_built" /\ 1 <= Len(values) /\ Len(values) <= min_points_per_subset)
        => /\ is_some(SahRoot)
           /\ unwrap(SahRoot).is_leaf
           /\ unwrap(SahRoot).left = None
           /\ unwrap(SahRoot).right = None
           /\ unwrap(SahRoot).values = Some(values)
           /\ sah_calls = 0

C8_Witness ==
    /\ pc = "sah_built"
    /\ Len(values) >= 2
    /\ Len(values) = min_points_per_subset
    /\ values[1] # values[2]

\* C9: with limit > |P| find_closest returns every point: the returned
\* sequence has length |P|.
C9_LimitAboveSizeReturnsAll ==
    (pc = "searched" /\ point_limit > Len(points))
        => /\ is_some(closest)
           /\ Len(unwrap(closest)) = Len(points)

\* C10: with limit = 0 find_closest returns None or an empty sequence, never
\* a non-empty one.
C10_LimitZeroIsEmpty ==
    (pc = "searched" /\ point_limit = 0)
        => (closest = None \/ closest = Some(<<>>))

C10_Witness ==
    /\ pc = "searched"
    /\ point_limit = 0
    /\ Len(collected) >= 2
    /\ closest = Some(<<>>)

RECURSIVE IsSubseq(_, _)
IsSubseq(a, b) ==
    IF a = <<>> THEN TRUE
    ELSE IF b = <<>> THEN FALSE
    ELSE IF a[1] = b[1] THEN IsSubseq(Tail(a), Tail(b))
    ELSE IsSubseq(a, Tail(b))

IsPartition(input, value2, axis, left, right) ==
    /\ \A i \in 1..Len(left) : 2 * left[i][axis + 1] < value2
    /\ \A i \in 1..Len(right) : 2 * right[i][axis + 1] >= value2
    /\ IsSubseq(left, input)
    /\ IsSubseq(right, input)
    /\ SameMultiset(left \o right, input)

\* C12: partition_dataset and spatial_partition_dataset put a point on the
\* left exactly when its coordinate on the axis is strictly below the split
\* value and on the right otherwise (an equal coordinate goes right); each
\* side keeps the input's relative order and left ++ right is a permutation
\* of the input.
C12_PartitionByStrictLess ==
    /\ call.fn = "partition_dataset"
         => IsPartition(call.values, call.median_value2, call.axis,
                        call.result[1], call.result[2])
    /\ call.fn = "get_constructor"
         => IsPartition(call.sah.og_list, call.sah.optimal_split_value2,
                        call.sah.optimal_dimension,
                        call.partitioned[1], call.partitioned[2])

C12_Witness ==
    /\ call.fn = "partition_dataset"
    /\ Len(call.values) = 3
    /\ Len(call.result[1]) >= 1
    /\ Len(call.result[2]) = 2
    /\ 2 * call.result[2][1][call.axis + 1] = call.median_value2
    /\ 2 * call.result[2][2][call.axis + 1] > call.median_value2

\* Twice the i-th candidate midpoint of a list sorted on axis (i = 1..n-1).
Candidate2(sorted, axis, i) == sorted[i][axis + 1] + sorted[i + 1][axis + 1]

IsSortedOn(s, axis) ==
    \A i \in 1..(Len(s) - 1) : s[i][axis + 1] <= s[i + 1][axis + 1]

\* C13: for n >= 2 points select_optimal_splitting_plane returns the candidate
\* midpoint, over the points sorted ascending on the chosen axis, whose SAH
\* cost is minimal, together with that cost; of several candidates with the
\* minimal cost the earliest one.
C13_ReturnsMinimalCandidate ==
    (call.fn = "select_optimal_splitting_plane" /\ Len(call.points) >= 2)
        => LET r == call.result
               s == r.og_list
               axis == r.optimal_dimension
               Cost(i) == calculate_sah_cost(s, axis, call.k, Candidate2(s, axis, i))
           IN /\ IsSortedOn(s, axis)
              /\ SameMultiset(s, call.points)
              /\ \E i \in 1..(Len(s) - 1) :
                    /\ r.optimal_split_value2 = Candidate2(s, axis, i)
                    /\ r.sah_cost = Cost(i)
                    /\ \A j \in 1..(Len(s) - 1) : ~FLt(Cost(j), Cost(i))
                    /\ \A j \in 1..(i - 1) : Cost(j) # Cost(i)

\* Largest minus smallest coordinate of a non-empty point sequence on an axis.
RangeOn(pts, axis) ==
    MaxOf({ pts[j][axis + 1] : j \in 1..Len(pts) })
    - MinOf({ pts[j][axis + 1] : j \in 1..Len(pts) })

\* C14: for a non-empty point sequence and k >= 1,
\* find_dimension_axis_with_largest_range returns an axis in [0,k) with the
\* largest coordinate range, the lowest such axis when several share it.
C14_LargestRangeLowestAxis ==
    (/\ call.fn = "find_dimension_axis_with_largest_range"
     /\ Len(call.points) >= 1
     /\ call.k >= 1)
        => /\ call.result \in 0..(call.k - 1)
           /\ \A a \in 0..(call.k - 1) :
                 RangeOn(call.points, a) <= RangeOn(call.points, call.result)
           /\ \A a \in 0..(call.result - 1) :
                 RangeOn(call.points, a) < RangeOn(call.points, call.result)

C14_Witness ==
    /\ call.fn = "find_dimension_axis_with_largest_range"
    /\ Len(call.points) >= 2
    /\ call.k = Dim
    /\ call.result = 0
    /\ RangeOn(call.points, 1) = RangeOn(call.points, 0)
    /\ RangeOn(call.points, 2) < RangeOn(call.points, 0)

\* The surface area of the bounding box of a point set in dimension k, on
\* exact numbers: twice the sum of the products of cyclically adjacent
\* extents, and 0 for the empty set.
RECURSIVE AdjacentProducts(_, _, _)
AdjacentProducts(pts, dim, n) ==
    IF n = 0 THEN 0
    ELSE AdjacentProducts(pts, dim, n - 1) + RangeOn(pts, n - 1) * RangeOn(pts, n % dim)

SurfaceAreaOf(pts, dim) ==
    IF pts = <<>> THEN 0 ELSE 2 * AdjacentProducts(pts, dim, dim)

LeftOf(pts, axis, value2) == SelectSeq(pts, LAMBDA p : 2 * p[axis + 1] < value2)
RightOf(pts, axis, value2) == SelectSeq(pts, LAMBDA p : 2 * p[axis + 1] >= value2)

\* C15: calculate_sah_cost returns 2 * (|L| * SA(bbox(L)) + |R| * SA(bbox(R)))
\* for the partition (L, R) of the points by the axis and the split value.
C15_CostFormula ==
    call.fn = "calculate_sah_cost"
        => LET L == LeftOf(call.sorted_list, call.axis, call.median_value2)
               R == RightOf(call.sorted_list, call.axis, call.median_value2)
           IN call.result = 2 * (Len(L) * SurfaceAreaOf(L, call.k)
                                 + Len(R) * SurfaceAreaOf(R, call.k))

\* C16: for a non-empty point list and every axis a in [0,k),
\* calculate_bounding_box returns min[a] equal to the smallest and max[a] equal
\* to the largest coordinate of the points on axis a, so min[a] <= max[a] and
\* every point lies inside the box.
C16_BoundingBoxIsTight ==
    (call.fn = "calculate_bounding_box" /\ Len(call.list) >= 1)
        => \A a \in 1..call.k :
              LET coords == { call.list[j][a] : j \in 1..Len(call.list) }
              IN /\ call.result.min_coordinates[a] = MinOf(coords)
                 /\ call.result.max_coordinates[a] = MaxOf(coords)
                 /\ call.result.min_coordinates[a] <= call.result.max_coordinates[a]
                 /\ \A j \in 1..Len(call.list) :
                       /\ call.result.min_coordinates[a] <= call.list[j][a]
                       /\ call.list[j][a] <= call.result.max_coordinates[a]

C16_Witness ==
    /\ call.fn = "calculate_bounding_box"
    /\ Len(call.list) = 3
    /\ call.k = Dim
    /\ \A a \in 1..Dim : call.result.min_coordinates[a] < call.result.max_coordinates[a]
    /\ call.result.min_coordinates[1] < call.list[1][1]
    /\ call.list[1][1] < call.result.max_coordinates[1]
    /\ call.result.min_coordinates[1] < 0

\* The extent of a box on axis a (0-based), an f32.
Extent(bbox, a) == FSub(bbox.max_coordinates[a + 1], bbox.min_coordinates[a + 1])

RECURSIVE ExtentProducts(_, _)
ExtentProducts(bbox, n) ==
    IF n = 0 THEN 0
    ELSE FAdd(ExtentProducts(bbox, n - 1),
              FMul(Extent(bbox, n - 1), Extent(bbox, n % bbox.k)))

\* C17: for a bounding box of dimension k >= 1 calculate_surface_area returns
\* 2 * (sum over a in [0,k) of e[a] * e[(a+1) mod k]) with e[a] = max[a] -
\* min[a], in f32 arithmetic; for k = 3 this is 2(xy + yz + zx) and for k = 2
\* it is 4 * e0 * e1.
C17_SurfaceAreaFormula ==
    (call.fn = "calculate_surface_area" /\ call.bbox.k >= 1)
        => LET b == call.bbox
           IN /\ call.result = FMul(2, ExtentProducts(b, b.k))
              /\ b.k = 3 =>
                    call.result = FMul(2, FAdd(FAdd(FMul(Extent(b, 0), Extent(b, 1)),
                                                    FMul(Extent(b, 1), Extent(b, 2))),
                                               FMul(Extent(b, 2), Extent(b, 0))))
              /\ b.k = 2 =>
                    call.result = FMul(4, FMul(Extent(b, 0), Extent(b, 1)))

C17_Witness ==
    /\ call.fn = "calculate_surface_area"
    /\ call.bbox.k = 3
    /\ Extent(call.bbox, 0) > Extent(call.bbox, 2)
    /\ Extent(call.bbox, 2) > Extent(call.bbox, 1)
    /\ Extent(call.bbox, 1) > 0
    /\ call.result = 2 * (Extent(call.bbox, 0) * Extent(call.bbox, 1)
                          + Extent(call.bbox, 1) * Extent(call.bbox, 2)
                          + Extent(call.bbox, 2) * Extent(call.bbox, 0))

\* C18: the surface area of the bounding box computed from an empty point
\* list is 0 for every k, and in calculate_sah_cost an empty side contributes
\* 0 to the cost, which is then twice the size of the other side times its
\* surface area.
C18_EmptyBoxHasZeroArea ==
    /\ (call.fn = "calculate_surface_area" /\ call.list = <<>>) => call.result = 0
    /\ call.fn = "calculate_sah_cost"
         => LET L == LeftOf(call.sorted_list, call.axis, call.median_value2)
                R == RightOf(call.sorted_list, call.axis, call.median_value2)
            IN /\ L = <<>> => call.result = 2 * Len(R) * SurfaceAreaOf(R, call.k)
               /\ R = <<>> => call.result = 2 * Len(L) * SurfaceAreaOf(L, call.k)

\* C19: a create_branch call whose point set is larger than the leaf threshold
\* and has one coordinate for all its points on the axis the SAH evaluator
\* chooses takes the degenerate-split branch: it makes no recursive call and
\* returns a leaf that holds every one of its points.
C19_DegenerateAxisGivesLeaf ==
    \A i \in 1..Len(stack) :
        LET f == stack[i]
            axis == find_dimension_axis_with_largest_range(f.values, f.depth % k)
        IN (/\ f.at # "entry"
            /\ ~is_leaf_sized(f.values, min_points_per_subset)
            /\ \A m, n \in 1..Len(f.values) : f.values[m][axis + 1] = f.values[n][axis + 1])
               => /\ f.at = "done"
                  /\ is_some(f.ret)
                  /\ unwrap(f.ret).is_leaf
                  /\ SameMultiset(unwrap(unwrap(f.ret).values), f.values)

\* The points of an optional subset; none when it is absent.
PointsOf(subset) == IF is_some(subset) THEN unwrap(subset) ELSE <<>>

\* C20: the left and right subsets get_constructor returns are disjoint as
\* sub-multisets of the input (together they are the input, occurrence by
\* occurrence), a side is None exactly when it holds no point, and the point
\* sets create_branch hands to its two recursive calls are those subsets.
C20_DisjointSides ==
    /\ call.fn = "get_constructor"
         => /\ SameMultiset(PointsOf(call.result.left) \o PointsOf(call.result.right),
                            call.points)
            /\ call.result.left = None <=> call.partitioned[1] = <<>>
            /\ call.result.right = None <=> call.partitioned[2] = <<>>
            /\ is_some(call.result.left) => unwrap(call.result.left) = call.partitioned[1]
            /\ is_some(call.result.right) => unwrap(call.result.right) = call.partitioned[2]
    /\ \A i \in 1..(Len(stack) - 1) :
          stack[i].at = "left"
              => SameMultiset(stack[i + 1].values \o PointsOf(stack[i].right_subset),
                              stack[i].values)

C20_Witness ==
    /\ call.fn = "get_constructor"
    /\ call.k = Dim
    /\ Len(call.points) = 3
    /\ is_some(call.result.left)
    /\ is_some(call.result.right)
    /\ Len(unwrap(call.result.right)) = 2
    /\ unwrap(call.result.right)[1] = unwrap(call.result.right)[2]

\* C22: a create_branch call whose point set is larger than the leaf threshold
\* and for which the SAH evaluator reports cost 0 creates no internal node: it
\* returns a leaf holding the left partition when that is non-empty, otherwise
\* a leaf holding the right partition, and never nothing for a non-empty input.
C22_ZeroCostGivesLeaf ==
    \A i \in 1..Len(stack) :
        LET f == stack[i]
            sah == select_optimal_splitting_plane(f.values, f.depth % k)
            L == LeftOf(sah.og_list, sah.optimal_dimension, sah.optimal_split_value2)
            R == RightOf(sah.og_list, sah.optimal_dimension, sah.optimal_split_value2)
        IN (/\ f.at # "entry"
            /\ ~is_leaf_sized(f.values, min_points_per_subset)
            /\ sah.sah_cost = 0)
               => /\ f.at = "done"
                  /\ is_some(f.ret)
                  /\ unwrap(f.ret).is_leaf
                  /\ unwrap(f.ret).left = None
                  /\ unwrap(f.ret).right = None
                  /\ unwrap(f.ret).values = Some(IF L # <<>> THEN L ELSE R)

C22_Witness ==
    /\ pc = "create_branch"
    /\ Len(stack) = 1
    /\ stack[1].at = "done"
    /\ Len(values) = 3
    /\ min_points_per_subset = 2
    /\ select_optimal_splitting_plane(values, 0).sah_cost = 0
    /\ is_some(stack[1].ret)
    /\ Len(unwrap(unwrap(stack[1].ret).values)) = 1
    /\ unwrap(unwrap(stack[1].ret).values)[1][1] < 0

\* C23: the split create_branch obtains from the SAH evaluator does not depend
\* on the depth: it is the evaluator's result for the point set and the
\* tree's dimensionality k, so two activations with the same point set obtain
\* the same split.
C23_SplitIndependentOfDepth ==
    /\ \A i \in 1..Len(stack) :
          is_some(stack[i].constructor)
              => unwrap(stack[i].constructor) = get_constructor(stack[i].values, k)
    /\ \A i, j \in 1..Len(stack) :
          (/\ is_some(stack[i].constructor)
           /\ is_some(stack[j].constructor)
           /\ stack[i].values = stack[j].values)
              => stack[i].constructor = stack[j].constructor

\* C24: during one find_closest call a pair is appended to best_points only
\* when its distance is strictly less than the distance of every pair
\* appended before it: best_points in insertion order is strictly decreasing
\* in distance.
C24_BestPointsStrictlyDecreasing ==
    pc = "searched"
        => \A i, j \in 1..Len(collected) :
              i < j => collected[j][1] < collected[i][1]

(***************************************************************************)
(* The search seen through its invocations                                 *)
(***************************************************************************)
MedianRoot == unwrap(unwrap(root).val)

RECURSIVE NodeAt(_, _)
NodeAt(node, path) ==
    IF path = <<>> THEN node
    ELSE NodeAt(unwrap(IF path[1] = "LEFT" THEN node.left ELSE node.right), Tail(path))

IsPrefix(p, q) == Len(p) <= Len(q) /\ SubSeq(q, 1, Len(p)) = p

CallNode(c) == NodeAt(MedianRoot, nn_calls[c].path)
CallDistance(c) == distance_to(query_point, unwrap(CallNode(c).point))

\* The c-th invocation appended its node's pair to best_points.
Appended(c) == CallDistance(c) < nn_calls[c].max_distance_sq

Visited(path) == \E c \in 1..Len(nn_calls) : nn_calls[c].path = path

\* The smallest distance appended by the first t invocations.
MaxAccepted(t) ==
    MinOf({F32Max} \cup { CallDistance(i) : i \in { j \in 1..t : Appended(j) } })

\* The side direction() picks at the node of the c-th invocation.
NearSide(c) ==
    direction(query_point, unwrap(CallNode(c).point), CallNode(c).depth % query_k)

FarSide(c) == IF NearSide(c) = "LEFT" THEN "RIGHT" ELSE "LEFT"

Child(node, side) == IF side = "LEFT" THEN node.left ELSE node.right

\* The last invocation made for the near side of the c-th one; c itself when
\* the near side was not entered.
NearDone(c) ==
    MaxOf({c} \cup { i \in 1..Len(nn_calls) :
                        IsPrefix(Append(nn_calls[c].path, NearSide(c)), nn_calls[i].path) })

\* The pairs appended, as the invocations tell them.
PairsOfCalls ==
    LET appended == SelectSeq([ c \in 1..Len(nn_calls) |-> c ], LAMBDA c : Appended(c))
    IN [ i \in 1..Len(appended) |->
            << CallDistance(appended[i]), unwrap(CallNode(appended[i]).point) >> ]

\* C25: at every internal node the search visits, once the near side has
\* been handled the far child is traversed exactly when it exists and the
\* distance from the query to its pivot is below max_accepted, also when the
\* near child is absent.
C25_FarSideRule ==
    pc = "searched"
        => \A c \in 1..Len(nn_calls) :
              LET node == CallNode(c)
                  far == Child(node, FarSide(c))
              IN (is_some(node.left) \/ is_some(node.right))
                    => (Visited(Append(nn_calls[c].path, FarSide(c)))
                          <=> /\ is_some(far)
                              /\ distance_to(query_point, unwrap(unwrap(far).point))
                                    < MaxAccepted(NearDone(c)))

\* query[axis] - pivot[axis] at the node of the c-th invocation.
AxisDifference(c) ==
    LET axis == CallNode(c).depth % query_k
    IN query_point[axis + 1] - unwrap(CallNode(c).point)[axis + 1]

FirstSide(c) == IF AxisDifference(c) <= 0 THEN "LEFT" ELSE "RIGHT"
SecondSide(c) == IF AxisDifference(c) <= 0 THEN "RIGHT" ELSE "LEFT"

\* C26: from a visited node with axis = depth mod k the search descends first
\* into the Left child when query[axis] - pivot[axis] <= 0 and first into the
\* Right child when it is > 0; when both children are traversed every pair of
\* the near side is appended before any pair of the far side.
C26_NearSideFirst ==
    pc = "searched"
        => /\ collected = PairsOfCalls
           /\ \A c \in 1..Len(nn_calls) :
                 LET path == nn_calls[c].path
                 IN /\ (Visited(Append(path, "LEFT")) \/ Visited(Append(path, "RIGHT")))
                          => nn_calls[c + 1].path = Append(path, FirstSide(c))
                    /\ \A i, j \in 1..Len(nn_calls) :
                          (/\ IsPrefix(Append(path, FirstSide(c)), nn_calls[i].path)
                           /\ IsPrefix(Append(path, SecondSide(c)), nn_calls[j].path))
                              => i < j

C26_Witness ==
    /\ pc = "searched"
    /\ Len(nn_calls) >= 3
    /\ AxisDifference(1) = 0
    /\ nn_calls[2].path = << "LEFT" >>
    /\ Visited(<< "RIGHT" >>)
    /\ Len(collected) >= 3

\* node is what the median builder makes of list at depth d: it stores the
\* element at index floor(n/2) of the list sorted on axis d mod 3, its left
\* subtree is made of the elements before it and its right subtree of the
\* elements after it, and a child is absent exactly when its list is empty.
RECURSIVE IsMedianTree(_, _, _)
IsMedianTree(node, list, d) ==
    LET s == sort_points(list, d % 3)
        m == Len(s) \div 2
        before == SubSeq(s, 1, m)
        after == SubSeq(s, m + 2, Len(s))
    IN /\ IsSortedOn(s, d % 3)
       /\ SameMultiset(s, list)
       /\ node.depth = d
       /\ node.point = Some(s[m + 1])
       /\ IF before = <<>> THEN node.left = None
          ELSE is_some(node.left) /\ IsMedianTree(unwrap(node.left), before, d + 1)
       /\ IF after = <<>> THEN node.right = None
          ELSE is_some(node.right) /\ IsMedianTree(unwrap(node.right), after, d + 1)

\* C27: in the median builder the node created at depth d from a non-empty
\* list stores the element at index floor(n/2) of the list sorted ascending
\* on axis d mod 3; its left subtree is built from the elements before that
\* index and its right subtree from those after it, a child being absent
\* exactly when its list is empty.
C27_MedianNodes ==
    pc \in {"median_built", "searched"} => IsMedianTree(MedianRoot, points, 0)

C27_Witness ==
    /\ pc = "median_built"
    /\ Len(points) = 4
    /\ is_some(MedianRoot.left)
    /\ is_some(MedianRoot.right)
    /\ is_some(unwrap(MedianRoot.left).left)
    /\ unwrap(MedianRoot.left).right = None
    /\ unwrap(MedianRoot.point)[1] = unwrap(unwrap(MedianRoot.right).point)[1]

\* The nodes of a median tree, the root first.
RECURSIVE NodesOf(_)
NodesOf(n) ==
    IF ~is_some(n) THEN <<>>
    ELSE << unwrap(n) >> \o NodesOf(unwrap(n).left) \o NodesOf(unwrap(n).right)

MedianNodes == NodesOf(Some(MedianRoot))

\* C28: the tree the median builder makes of a non-empty point set P has
\* exactly |P| nodes, every node holds a point, and the multiset of the node
\* points is P.
C28_OneNodePerPoint ==
    pc \in {"median_built", "searched"}
        => /\ Len(MedianNodes) = Len(points)
           /\ \A i \in 1..Len(MedianNodes) : is_some(MedianNodes[i].point)
           /\ SameMultiset([ i \in 1..Len(MedianNodes) |-> unwrap(MedianNodes[i].point) ],
                           points)

C28_Witness ==
    /\ pc = "median_built"
    /\ Len(points) = 4
    /\ Len(MedianNodes) = 4
    /\ points[1] = points[2]
    /\ points[3] # points[4]

\* The points of a sequence with the smallest coordinate on axis 0.
SmallestOnAxis0(pts) ==
    SelectSeq(pts, LAMBDA p : \A j \in 1..Len(pts) : p[1] <= pts[j][1])

C30_EqualityIsCoordinateEquality ==
    call.fn = "eq"
        => /\ call.result <=> (/\ call.self[1] = call.other[1]
                               /\ call.self[2] = call.other[2]
                               /\ call.self[3] = call.other[3])
           /\ call.model_result <=> (/\ call.self[1] = call.other[1]
                                     /\ call.self[2] = call.other[2]
                                     /\ call.self[3] = call.other[3])

====
